---- MODULE Spec2Model ----
(***************************************************************************)
(* Sensor telemetry ingestion engine of pogodynka-air (src/app_bck2.py):   *)
(* the Plantower frame parser, the resynchronizing serial worker, the      *)
(* BMP280 register-bus worker, the shared SensorState records guarded by   *)
(* one threading.Lock, and the home() snapshot.                            *)
(***************************************************************************)
EXTENDS Integers, Sequences, FiniteSets, TLC

\* ------------------------------------------------------------------ bounds
MaxClock == 2        \* the clock now_ts() runs over 1..MaxClock
MaxSent == 2         \* most frames the sensor transmits in SpecRec
MaxNoise == 2        \* most noise bytes in front of a frame in SpecStream

\* ------------------------------------------------------- program constants
FRAME_LEN == 32      \* length of a Plantower frame
BODY_LEN == 30       \* bytes covered by the checksum
READ_MAX == 128      \* ser.read(128)
SANITY_MAX == 5000   \* sanity ceiling on the ATM concentrations
MARK_HI == 66        \* 0x42
MARK_LO == 77        \* 0x4D
ADDR_A == 118        \* 0x76
ADDR_B == 119        \* 0x77

BMP_ADDRS == <<ADDR_A, ADDR_B>>

\* Optional[...]: None is the empty sequence, a present value v is <<v>>.
None == <<>>
Some(v) == <<v>>

\* An empty dict.
EmptyData == [k \in {} |-> 0]

\* ----------------------------------------------------------- byte helpers
Min(S) == CHOOSE x \in S : \A y \in S : x <= y

\* Python slice b[lo:hi] (0-based, hi exclusive, clipped to the length).
Slice(b, lo, hi) == SubSeq(b, lo + 1, IF hi > Len(b) THEN Len(b) ELSE hi)

\* Python slice b[lo:].
SliceFrom(b, lo) == SubSeq(b, lo + 1, Len(b))

\* Python slice b[-1:].
LastByte(b) == IF Len(b) = 0 THEN <<>> ELSE <<b[Len(b)]>>

RECURSIVE SumBytes(_)
SumBytes(s) == IF Len(s) = 0 THEN 0 ELSE Head(s) + SumBytes(Tail(s))

\* u16(be_hi, be_lo) = (be_hi << 8) | be_lo, for bytes.
u16(be_hi, be_lo) == be_hi * 256 + be_lo

\* frame[k] with Python's 0-based index.
At(frame, k) == frame[k + 1]

\* buf.find(b"\x42\x4D"): 0-based index of the first marker, -1 if none.
Find(b) ==
    LET hits == {i \in 0..(Len(b) - 2) : b[i + 1] = MARK_HI /\ b[i + 2] = MARK_LO}
    IN IF hits = {} THEN -1 ELSE Min(hits)

\* Mutant of parse_plantower_frame: the checksum is not compared.
ParseNoChecksum(frame) ==
    IF Len(frame) # FRAME_LEN THEN None
    ELSE IF At(frame, 0) # MARK_HI \/ At(frame, 1) # MARK_LO THEN None
    ELSE Some([cf1 |-> [pm1 |-> u16(At(frame, 4), At(frame, 5)),
                        pm25 |-> u16(At(frame, 6), At(frame, 7)),
                        pm10 |-> u16(At(frame, 8), At(frame, 9))],
               atm |-> [pm1 |-> u16(At(frame, 10), At(frame, 11)),
                        pm25 |-> u16(At(frame, 12), At(frame, 13)),
                        pm10 |-> u16(At(frame, 14), At(frame, 15))]])

\* parse_plantower_frame: None, or the two concentration triples.
parse_plantower_frame(frame) ==
    IF Len(frame) # FRAME_LEN THEN None
    ELSE IF At(frame, 0) # MARK_HI \/ At(frame, 1) # MARK_LO THEN None
    ELSE LET cs_calc == SumBytes(Slice(frame, 0, BODY_LEN)) % 65536
             cs_frame == u16(At(frame, 30), At(frame, 31))
         IN IF cs_calc # cs_frame THEN None
            ELSE Some([cf1 |-> [pm1 |-> u16(At(frame, 4), At(frame, 5)),
                                pm25 |-> u16(At(frame, 6), At(frame, 7)),
                                pm10 |-> u16(At(frame, 8), At(frame, 9))],
                       atm |-> [pm1 |-> u16(At(frame, 10), At(frame, 11)),
                                pm25 |-> u16(At(frame, 12), At(frame, 13)),
                                pm10 |-> u16(At(frame, 14), At(frame, 15))]])

\* The sanity check of pms_worker on the ATM triple.
Implausible(pm) ==
    pm.pm25 > SANITY_MAX \/ pm.pm10 > SANITY_MAX \/ pm.pm1 > SANITY_MAX

\* ------------------------------------------------- what the sensor can send
\* A frame as the sensor builds it: header, length 28, CF1 and ATM triples,
\* zero filler, big-endian checksum of bytes 0..29.
Hi(v) == v \div 256
Lo(v) == v % 256
FrameBody(cf1, atm) ==
    <<MARK_HI, MARK_LO, 0, 28,
      Hi(cf1[1]), Lo(cf1[1]), Hi(cf1[2]), Lo(cf1[2]), Hi(cf1[3]), Lo(cf1[3]),
      Hi(atm[1]), Lo(atm[1]), Hi(atm[2]), Lo(atm[2]), Hi(atm[3]), Lo(atm[3])>>
    \o [k \in 1..14 |-> 0]
MkFrame(cf1, atm) ==
    LET body == FrameBody(cf1, atm)
        cs == SumBytes(body) % 65536
    IN body \o <<Hi(cs), Lo(cs)>>

FrameA == MkFrame(<<8, 20, 40>>, <<10, 25, 50>>)
FrameB == MkFrame(<<9, 22, 300>>, <<12, 30, 322>>)
FrameHot == MkFrame(<<8, 20, 40>>, <<10, 6000, 50>>)
FrameCf1Hot == MkFrame(<<8, 6000, 40>>, <<11, 26, 51>>)
ValidFrames == {FrameA, FrameB}

\* frame with the byte at 0-based position k replaced by v.
Corrupt(frame, k, v) == [frame EXCEPT ![k + 1] = v]

\* ------------------------------------------------------------------- state
VARIABLES
    now,           \* the value now_ts() returns
    lock,          \* holder of the threading.Lock: "free", "pms", "bmp", "home"
    aq_state,      \* SensorState of the particulate sensor
    env_state,     \* SensorState of the atmospheric sensor
    last_success,  \* history: data and last_ok_ts as each record's last success left them
    okLog,         \* history: the payloads pms_worker's success updates wrote, in order
    wire,          \* bytes the sensor has sent and ser.read has not returned yet
    line,          \* the transmissions the sensor has still to make
    fed,           \* history: every byte ser.read has returned, in order
    ser,           \* the serial port object: "closed" or "open"
    buf,           \* pms_worker's accumulation buffer
    chunk,         \* pms_worker's last ser.read result
    pm,            \* pms_worker's accepted ATM triple awaiting the success update
    pms_e,         \* the exception pms_worker's handler caught
    pms_pc,        \* pms_worker's position
    i2c,           \* bmp_worker's bus object: None or Some("bus")
    bmp,           \* bmp_worker's device object: None or Some(address)
    addr_i,        \* bmp_worker's position in BMP_ADDRS during discovery
    last_err,      \* bmp_worker's last_err
    reading,       \* bmp_worker's temp_c, press_hpa as read (thousandths)
    bmp_e,         \* the exception bmp_worker's handler caught
    bmp_pc,        \* bmp_worker's position
    snap,          \* home()'s local copies
    home_pc        \* home()'s position

vars == <<now, lock, aq_state, env_state, last_success, okLog, wire, line, fed, ser,
          buf, chunk, pm, pms_e, pms_pc, i2c, bmp, addr_i, last_err, reading,
          bmp_e, bmp_pc, snap, home_pc>>

clockVars == <<now>>
pmsVars == <<aq_state, okLog, wire, line, fed, ser, buf, chunk, pm, pms_e, pms_pc>>
bmpVars == <<env_state, i2c, bmp, addr_i, last_err, reading, bmp_e, bmp_pc>>
homeVars == <<snap, home_pc>>

\* SensorState() as the dataclass constructs it.
SensorState ==
    [status |-> "INIT", last_ok_ts |-> None, last_try_ts |-> None,
     error |-> "", data |-> EmptyData]

\* home()'s locals before it has read anything.
SnapInit ==
    [env |-> EmptyData, aq |-> EmptyData, env_status |-> "", aq_status |-> "",
     env_age |-> None, aq_age |-> None, env_err |-> "", aq_err |-> ""]

\* now_ts()
now_ts == now

\* age(ts)
age(ts) == IF ts = None THEN None ELSE Some(now_ts - ts[1])

\* Mutant of CanAcquire: the with-blocks do not exclude one another.
CanAcquireAlways == TRUE

\* threading.Lock: acquire succeeds only on a free lock.
CanAcquire == lock = "free"

\* Mutants of FailStatus: the handler forgets that a success has been seen,
\* or forgets that none has.
FailStatusAlwaysErr(st) == "ERR"
FailStatusAlwaysWarn(st) == "WARN"

\* The status the except-handlers assign.
FailStatus(st) == IF st.last_ok_ts = None THEN "ERR" ELSE "WARN"

\* round(x, 2) of a value given in thousandths, as hundredths.
Round2(milli) ==
    LET q == milli \div 10
        r == milli % 10
    IN IF r > 5 \/ (r = 5 /\ q % 2 = 1) THEN q + 1 ELSE q

\* What the BMP280 can return: (temperature, pressure) in thousandths.
Readings == {<<21504, 1013246>>, <<19996, 998105>>}

\* Exception texts.
ErrOpen == "could not open port"
ErrRead == "device reports readiness to read but returned no data"
ErrBus == "No I2C bus"
ErrAddr(a) == IF a = ADDR_A THEN "No I2C device at address: 0x76"
              ELSE "No I2C device at address: 0x77"
ErrIO == "Remote I/O error"
ErrNoneType == "'NoneType' object has no attribute 'temperature'"

\* Everything but the threads' positions and the serial line, as the module
\* body leaves it before start_threads().
BootState ==
    /\ now = 1
    /\ lock = "free"
    /\ aq_state = SensorState
    /\ env_state = SensorState
    /\ last_success = [aq |-> None, env |-> None]
    /\ okLog = <<>>
    /\ fed = <<>>
    /\ ser = "closed"
    /\ buf = <<>>
    /\ chunk = <<>>
    /\ pm = None
    /\ pms_e = ""
    /\ i2c = None
    /\ bmp = None
    /\ addr_i = 1
    /\ last_err = None
    /\ reading = None
    /\ bmp_e = ""
    /\ snap = SnapInit
    /\ home_pc = "acq"

\* All sequences over S of length at most n.
RECURSIVE SeqsUpTo(_, _)
SeqsUpTo(S, n) ==
    IF n = 0 THEN {<<>>}
    ELSE LET shorter == SeqsUpTo(S, n - 1)
         IN shorter \cup {Append(q, x) : q \in shorter, x \in S}

\* The whole program: both workers started, requests arriving, the sensor
\* about to transmit one frame.
Init ==
    /\ BootState
    /\ wire = <<>>
    /\ line = <<FrameA>>
    /\ pms_pc = "open"
    /\ bmp_pc = "try"

\* ------------------------------------------------------------- environment
\* time.time() moves on.
Tick ==
    /\ now < MaxClock
    /\ now' = now + 1
    /\ UNCHANGED <<lock, last_success>>
    /\ UNCHANGED <<pmsVars, bmpVars, homeVars>>

\* The sensor transmits its next frame once the line is drained.
SensorSend ==
    /\ line # <<>>
    /\ wire = <<>>
    /\ wire' = Head(line)
    /\ line' = Tail(line)
    /\ UNCHANGED <<lock, last_success, aq_state, okLog, fed, ser, buf, chunk, pm, pms_e, pms_pc>>
    /\ UNCHANGED <<clockVars, bmpVars, homeVars>>

\* ------------------------------------------------------------- pms_worker
others_pms == <<clockVars, bmpVars, homeVars>>

\* Mutant of ScanStep: with no marker in sight the whole buffer is dropped,
\* the possible first marker byte at its end included.
ScanStepDropsAll(b) ==
    LET i == Find(b)
    IN IF i < 0
       THEN [buf |-> <<>>, brk |-> TRUE, frame |-> None]
       ELSE IF Len(b) < i + FRAME_LEN
       THEN [buf |-> SliceFrom(b, i), brk |-> TRUE, frame |-> None]
       ELSE [buf |-> SliceFrom(b, i + FRAME_LEN), brk |-> FALSE,
             frame |-> Some(Slice(b, i, i + FRAME_LEN))]

\* Mutant of ScanStep: an incomplete frame is cut after its marker.
ScanStepEatsMarker(b) ==
    LET i == Find(b)
    IN IF i < 0
       THEN [buf |-> IF Len(b) > 1 THEN LastByte(b) ELSE b, brk |-> TRUE, frame |-> None]
       ELSE IF Len(b) < i + FRAME_LEN
       THEN [buf |-> SliceFrom(b, i + 2), brk |-> TRUE, frame |-> None]
       ELSE [buf |-> SliceFrom(b, i + FRAME_LEN), brk |-> FALSE,
             frame |-> Some(Slice(b, i, i + FRAME_LEN))]

\* A frame search that waits for one byte more than the window needs.
ScanStepNeedsOneMore(b) ==
    LET i == Find(b)
    IN IF i < 0
       THEN [buf |-> IF Len(b) > 1 THEN LastByte(b) ELSE b, brk |-> TRUE, frame |-> None]
       ELSE IF Len(b) <= i + FRAME_LEN
       THEN [buf |-> SliceFrom(b, i), brk |-> TRUE, frame |-> None]
       ELSE [buf |-> SliceFrom(b, i + FRAME_LEN), brk |-> FALSE,
             frame |-> Some(Slice(b, i, i + FRAME_LEN))]

\* A frame search that steps over the marker alone after cutting a window.
ScanStepSkipsMarkerOnly(b) ==
    LET i == Find(b)
    IN IF i < 0
       THEN [buf |-> IF Len(b) > 1 THEN LastByte(b) ELSE b, brk |-> TRUE, frame |-> None]
       ELSE IF Len(b) < i + FRAME_LEN
       THEN [buf |-> SliceFrom(b, i), brk |-> TRUE, frame |-> None]
       ELSE [buf |-> SliceFrom(b, i + 2), brk |-> FALSE,
             frame |-> Some(Slice(b, i, i + FRAME_LEN))]

\* One pass of the frame-search loop over buffer b: the buffer it leaves,
\* whether it breaks out of the loop, and the 32-byte window it cut out.
ScanStep(b) ==
    LET i == Find(b)
    IN IF i < 0
       THEN [buf |-> IF Len(b) > 1 THEN LastByte(b) ELSE b, brk |-> TRUE, frame |-> None]
       ELSE IF Len(b) < i + FRAME_LEN
       THEN [buf |-> SliceFrom(b, i), brk |-> TRUE, frame |-> None]
       ELSE [buf |-> SliceFrom(b, i + FRAME_LEN), brk |-> FALSE,
             frame |-> Some(Slice(b, i, i + FRAME_LEN))]

\* What the loop does with a window: None when it continues without an
\* update, else the ATM triple the success update will store.
Accept(frame) ==
    LET parsed == parse_plantower_frame(frame)
    IN IF parsed = None THEN None
       ELSE IF Implausible(parsed[1].atm) THEN None
       ELSE Some([pm1 |-> parsed[1].atm.pm1, pm25 |-> parsed[1].atm.pm25,
                  pm10 |-> parsed[1].atm.pm10])

\* The frame-search loop run on buffer b until it breaks: the buffer it
\* leaves and the payloads it hands to the success update, in order.
RECURSIVE ScanAll(_)
ScanAll(b) ==
    LET s == ScanStep(b)
    IN IF s.brk THEN [buf |-> s.buf, log |-> <<>>]
       ELSE LET a == Accept(s.frame[1])
                rest == ScanAll(s.buf)
            IN [buf |-> rest.buf,
                log |-> (IF a = None THEN <<>> ELSE <<a[1]>>) \o rest.log]

\* with serial.Serial(PMS_PORT, PMS_BAUD, timeout=2) as ser
PmsOpen ==
    /\ pms_pc = "open"
    /\ ser' = "open"
    /\ pms_pc' = "try"
    /\ UNCHANGED <<lock, last_success, aq_state, okLog, wire, line, fed, buf, chunk, pm, pms_e>>
    /\ UNCHANGED others_pms

\* serial.Serial(...) raises: the port cannot be opened
PmsOpenFail ==
    /\ pms_pc = "open"
    /\ pms_e' = ErrOpen
    /\ pms_pc' = "except"
    /\ UNCHANGED <<lock, last_success, aq_state, okLog, wire, line, fed, ser, buf, chunk, pm>>
    /\ UNCHANGED others_pms

\* with lock: (the last_try_ts block)
PmsTryAcquire ==
    /\ pms_pc = "try"
    /\ CanAcquire
    /\ lock' = "pms"
    /\ pms_pc' = "try_set"
    /\ UNCHANGED <<last_success, aq_state, okLog, wire, line, fed, ser, buf, chunk, pm, pms_e>>
    /\ UNCHANGED others_pms

\* The read moved inside the lock block: the lock is still held when the
\* worker enters ser.read.
PmsTrySetKeepsLock ==
    /\ pms_pc = "try_set"
    /\ aq_state' = [aq_state EXCEPT !.last_try_ts = Some(now_ts)]
    /\ pms_pc' = "read"
    /\ UNCHANGED <<lock, last_success, okLog, wire, line, fed, ser, buf, chunk, pm, pms_e>>
    /\ UNCHANGED others_pms

\* aq_state.last_try_ts = now_ts(), and the lock is released
PmsTrySet ==
    /\ pms_pc = "try_set"
    /\ aq_state' = [aq_state EXCEPT !.last_try_ts = Some(now_ts)]
    /\ lock' = "free"
    /\ pms_pc' = "read"
    /\ UNCHANGED <<last_success, okLog, wire, line, fed, ser, buf, chunk, pm, pms_e>>
    /\ UNCHANGED others_pms

\* chunk = ser.read(128) returning n bytes; if chunk: buf += chunk
PmsReadN(n) ==
    /\ pms_pc = "read"
    /\ chunk' = SubSeq(wire, 1, n)
    /\ wire' = SubSeq(wire, n + 1, Len(wire))
    /\ buf' = IF chunk' # <<>> THEN buf \o chunk' ELSE buf
    /\ fed' = fed \o chunk'
    /\ pms_pc' = "scan"
    /\ UNCHANGED <<lock, last_success, aq_state, okLog, line, ser, pm, pms_e>>
    /\ UNCHANGED others_pms

\* A read with no limit on the bytes it returns.
MaxReadNoLimit(w) == Len(w)

\* The most ser.read(128) can return from what is pending.
MaxRead(w) == IF Len(w) > READ_MAX THEN READ_MAX ELSE Len(w)

\* ser.read times out with nothing, with the first half of a frame, or with
\* all of what is pending.
CoarseLens(w) ==
    {0, MaxRead(w)} \cup (IF Len(w) = FRAME_LEN THEN {FRAME_LEN \div 2} ELSE {})
PmsRead == \E n \in CoarseLens(wire) : PmsReadN(n)

\* ser.read returns any number of the pending bytes.
PmsReadAny == \E n \in 0..MaxRead(wire) : PmsReadN(n)

\* ser.read returns all the pending bytes it has room for.
PmsReadWhole == PmsReadN(MaxRead(wire))

\* ser.read times out with nothing, with one byte, with one byte less than
\* a frame, or with all it has room for.
EdgeLens(w) == {n \in {0, 1, FRAME_LEN - 1, MaxRead(w)} : n <= MaxRead(w)}
PmsReadEdge == \E n \in EdgeLens(wire) : PmsReadN(n)

\* ser.read raises; the with-block closes the port on the way out.
PmsReadFail ==
    /\ pms_pc = "read"
    /\ pms_e' = ErrRead
    /\ ser' = "closed"
    /\ pms_pc' = "except"
    /\ UNCHANGED <<lock, last_success, aq_state, okLog, wire, line, fed, buf, chunk, pm>>
    /\ UNCHANGED others_pms

\* The frame search with a window that fails to decode treated as a failed
\* attempt.
PmsScanMissIsFailure ==
    /\ pms_pc = "scan"
    /\ LET s == ScanStep(buf)
       IN /\ buf' = s.buf
          /\ IF s.brk
             THEN pm' = pm /\ pms_pc' = "sleep" /\ aq_state' = aq_state
             ELSE LET a == Accept(s.frame[1])
                  IN IF a = None
                     THEN /\ pm' = pm /\ pms_pc' = "scan"
                          /\ aq_state' = [aq_state EXCEPT
                                 !.status = FailStatus(aq_state)]
                     ELSE pm' = a /\ pms_pc' = "ok" /\ aq_state' = aq_state
    /\ UNCHANGED <<lock, last_success, okLog, wire, line, fed, ser, chunk, pms_e>>
    /\ UNCHANGED others_pms

\* One pass of the inner "while True" frame search.
PmsScan ==
    /\ pms_pc = "scan"
    /\ LET s == ScanStep(buf)
       IN /\ buf' = s.buf
          /\ IF s.brk
             THEN pm' = pm /\ pms_pc' = "sleep"
             ELSE LET a == Accept(s.frame[1])
                  IN IF a = None
                     THEN pm' = pm /\ pms_pc' = "scan"
                     ELSE pm' = a /\ pms_pc' = "ok"
    /\ UNCHANGED <<lock, last_success, aq_state, okLog, wire, line, fed, ser, chunk, pms_e>>
    /\ UNCHANGED others_pms

\* with lock: (the success update)
PmsOkAcquire ==
    /\ pms_pc = "ok"
    /\ CanAcquire
    /\ lock' = "pms"
    /\ pms_pc' = "ok_data"
    /\ UNCHANGED <<last_success, aq_state, okLog, wire, line, fed, ser, buf, chunk, pm, pms_e>>
    /\ UNCHANGED others_pms

\* aq_state.data = {...}
PmsOkData ==
    /\ pms_pc = "ok_data"
    /\ aq_state' = [aq_state EXCEPT !.data = pm[1]]
    /\ okLog' = Append(okLog, pm[1])
    /\ pms_pc' = "ok_status"
    /\ UNCHANGED <<lock, last_success, wire, line, fed, ser, buf, chunk, pm, pms_e>>
    /\ UNCHANGED others_pms

\* aq_state.status = "OK"
PmsOkStatus ==
    /\ pms_pc = "ok_status"
    /\ aq_state' = [aq_state EXCEPT !.status = "OK"]
    /\ pms_pc' = "ok_ts"
    /\ UNCHANGED <<lock, last_success, okLog, wire, line, fed, ser, buf, chunk, pm, pms_e>>
    /\ UNCHANGED others_pms

\* aq_state.last_ok_ts = now_ts()
PmsOkTs ==
    /\ pms_pc = "ok_ts"
    /\ aq_state' = [aq_state EXCEPT !.last_ok_ts = Some(now_ts)]
    /\ pms_pc' = "ok_err"
    /\ UNCHANGED <<lock, last_success, okLog, wire, line, fed, ser, buf, chunk, pm, pms_e>>
    /\ UNCHANGED others_pms

\* aq_state.error = "", and the lock is released
PmsOkErr ==
    /\ pms_pc = "ok_err"
    /\ aq_state' = [aq_state EXCEPT !.error = ""]
    /\ last_success' = [last_success EXCEPT
           !.aq = Some([data |-> aq_state.data, last_ok_ts |-> aq_state.last_ok_ts])]
    /\ lock' = "free"
    /\ pms_pc' = "scan"
    /\ UNCHANGED <<okLog, wire, line, fed, ser, buf, chunk, pm, pms_e>>
    /\ UNCHANGED others_pms

\* time.sleep(0.1)
PmsSleep ==
    /\ pms_pc = "sleep"
    /\ pms_pc' = "try"
    /\ UNCHANGED <<lock, last_success, aq_state, okLog, wire, line, fed, ser, buf, chunk, pm, pms_e>>
    /\ UNCHANGED others_pms

\* except Exception as e: with lock:
PmsExcAcquire ==
    /\ pms_pc = "except"
    /\ CanAcquire
    /\ lock' = "pms"
    /\ pms_pc' = "exc_status"
    /\ UNCHANGED <<last_success, aq_state, okLog, wire, line, fed, ser, buf, chunk, pm, pms_e>>
    /\ UNCHANGED others_pms

\* Mutant of PmsHandlerStatus: the handler also drops the stale payload.
PmsHandlerClearsData(st) == [st EXCEPT !.status = FailStatus(st), !.data = EmptyData]

\* What the handler's first assignment makes of the record.
PmsHandlerStatus(st) == [st EXCEPT !.status = FailStatus(st)]

\* aq_state.status = "ERR" if aq_state.last_ok_ts is None else "WARN"
PmsExcStatus ==
    /\ pms_pc = "exc_status"
    /\ aq_state' = PmsHandlerStatus(aq_state)
    /\ pms_pc' = "exc_error"
    /\ UNCHANGED <<lock, last_success, okLog, wire, line, fed, ser, buf, chunk, pm, pms_e>>
    /\ UNCHANGED others_pms

\* aq_state.error = str(e), and the lock is released; e is unbound after the clause
PmsExcError ==
    /\ pms_pc = "exc_error"
    /\ aq_state' = [aq_state EXCEPT !.error = pms_e]
    /\ lock' = "free"
    /\ pms_e' = ""
    /\ pms_pc' = "backoff"
    /\ UNCHANGED <<last_success, okLog, wire, line, fed, ser, buf, chunk, pm>>
    /\ UNCHANGED others_pms

\* The thread ends after a handled failure instead of looping.
PmsBackoffGivesUp ==
    /\ pms_pc = "backoff"
    /\ pms_pc' = "done"
    /\ UNCHANGED <<lock, last_success, aq_state, okLog, wire, line, fed, ser, buf, chunk, pm, pms_e>>
    /\ UNCHANGED others_pms

\* time.sleep(2), then back to opening the port
PmsBackoff ==
    /\ pms_pc = "backoff"
    /\ pms_pc' = "open"
    /\ UNCHANGED <<lock, last_success, aq_state, okLog, wire, line, fed, ser, buf, chunk, pm, pms_e>>
    /\ UNCHANGED others_pms

\* ------------------------------------------------------------- bmp_worker
others_bmp == <<clockVars, pmsVars, homeVars>>

\* Where the try-block goes after the last_try_ts block: the bus is opened
\* only when i2c is None, discovery runs only when bmp is None.
AfterTry == IF i2c = None THEN "i2c" ELSE IF bmp = None THEN "probe" ELSE "read"

\* with lock: (the last_try_ts block)
BmpTryAcquire ==
    /\ bmp_pc = "try"
    /\ CanAcquire
    /\ lock' = "bmp"
    /\ bmp_pc' = "try_set"
    /\ UNCHANGED <<last_success, env_state, i2c, bmp, addr_i, last_err, reading, bmp_e>>
    /\ UNCHANGED others_bmp

\* env_state.last_try_ts = now_ts(), and the lock is released
BmpTrySet ==
    /\ bmp_pc = "try_set"
    /\ env_state' = [env_state EXCEPT !.last_try_ts = Some(now_ts)]
    /\ lock' = "free"
    /\ bmp_pc' = AfterTry
    /\ addr_i' = 1
    /\ last_err' = IF AfterTry = "probe" THEN None ELSE last_err
    /\ UNCHANGED <<last_success, i2c, bmp, reading, bmp_e>>
    /\ UNCHANGED others_bmp

\* i2c = busio.I2C(board.SCL, board.SDA)
BmpBus ==
    /\ bmp_pc = "i2c"
    /\ \/ /\ i2c' = Some("bus")
          /\ bmp_pc' = IF bmp = None THEN "probe" ELSE "read"
          /\ last_err' = IF bmp = None THEN None ELSE last_err
          /\ bmp_e' = bmp_e
       \/ /\ i2c' = i2c
          /\ bmp_e' = ErrBus
          /\ bmp_pc' = "except"
          /\ last_err' = last_err
    /\ UNCHANGED <<lock, last_success, env_state, bmp, addr_i, reading>>
    /\ UNCHANGED others_bmp

\* Discovery that remembers the first candidate's error instead of the last.
BmpProbeKeepsFirstErr ==
    /\ bmp_pc = "probe"
    /\ IF addr_i <= Len(BMP_ADDRS)
       THEN \/ /\ bmp' = Some(BMP_ADDRS[addr_i])
               /\ last_err' = None
               /\ bmp_pc' = "read"
               /\ UNCHANGED <<addr_i, bmp_e>>
            \/ /\ last_err' = IF last_err = None
                               THEN Some(ErrAddr(BMP_ADDRS[addr_i]))
                               ELSE last_err
               /\ addr_i' = addr_i + 1
               /\ UNCHANGED <<bmp, bmp_pc, bmp_e>>
       ELSE IF bmp = None /\ last_err # None
            THEN /\ bmp_e' = last_err[1]
                 /\ bmp_pc' = "except"
                 /\ UNCHANGED <<bmp, addr_i, last_err>>
            ELSE /\ bmp_pc' = "read"
                 /\ UNCHANGED <<bmp, addr_i, last_err, bmp_e>>
    /\ UNCHANGED <<lock, last_success, env_state, i2c, reading>>
    /\ UNCHANGED others_bmp

\* for addr in BMP_ADDRS: one candidate, or the check after the loop
BmpProbe ==
    /\ bmp_pc = "probe"
    /\ IF addr_i <= Len(BMP_ADDRS)
       THEN \/ /\ bmp' = Some(BMP_ADDRS[addr_i])
               /\ last_err' = None
               /\ bmp_pc' = "read"
               /\ UNCHANGED <<addr_i, bmp_e>>
            \/ /\ last_err' = Some(ErrAddr(BMP_ADDRS[addr_i]))
               /\ addr_i' = addr_i + 1
               /\ UNCHANGED <<bmp, bmp_pc, bmp_e>>
       ELSE IF bmp = None /\ last_err # None
            THEN /\ bmp_e' = last_err[1]
                 /\ bmp_pc' = "except"
                 /\ UNCHANGED <<bmp, addr_i, last_err>>
            ELSE /\ bmp_pc' = "read"
                 /\ UNCHANGED <<bmp, addr_i, last_err, bmp_e>>
    /\ UNCHANGED <<lock, last_success, env_state, i2c, reading>>
    /\ UNCHANGED others_bmp

\* temp_c = float(bmp.temperature); press_hpa = float(bmp.pressure)
BmpRead ==
    /\ bmp_pc = "read"
    /\ IF bmp = None
       THEN bmp_e' = ErrNoneType /\ bmp_pc' = "except" /\ reading' = reading
       ELSE \/ \E r \in Readings :
                 reading' = Some(r) /\ bmp_pc' = "ok" /\ bmp_e' = bmp_e
            \/ bmp_e' = ErrIO /\ bmp_pc' = "except" /\ reading' = reading
    /\ UNCHANGED <<lock, last_success, env_state, i2c, bmp, addr_i, last_err>>
    /\ UNCHANGED others_bmp

\* with lock: (the success update)
BmpOkAcquire ==
    /\ bmp_pc = "ok"
    /\ CanAcquire
    /\ lock' = "bmp"
    /\ bmp_pc' = "ok_data"
    /\ UNCHANGED <<last_success, env_state, i2c, bmp, addr_i, last_err, reading, bmp_e>>
    /\ UNCHANGED others_bmp

\* env_state.data = {"temp_c": round(temp_c, 2), "press_hpa": round(press_hpa, 2)}
BmpOkData ==
    /\ bmp_pc = "ok_data"
    /\ env_state' = [env_state EXCEPT
           !.data = [temp_c |-> Round2(reading[1][1]), press_hpa |-> Round2(reading[1][2])]]
    /\ bmp_pc' = "ok_status"
    /\ UNCHANGED <<lock, last_success, i2c, bmp, addr_i, last_err, reading, bmp_e>>
    /\ UNCHANGED others_bmp

\* env_state.status = "OK"
BmpOkStatus ==
    /\ bmp_pc = "ok_status"
    /\ env_state' = [env_state EXCEPT !.status = "OK"]
    /\ bmp_pc' = "ok_ts"
    /\ UNCHANGED <<lock, last_success, i2c, bmp, addr_i, last_err, reading, bmp_e>>
    /\ UNCHANGED others_bmp

\* env_state.last_ok_ts = now_ts()
BmpOkTs ==
    /\ bmp_pc = "ok_ts"
    /\ env_state' = [env_state EXCEPT !.last_ok_ts = Some(now_ts)]
    /\ bmp_pc' = "ok_err"
    /\ UNCHANGED <<lock, last_success, i2c, bmp, addr_i, last_err, reading, bmp_e>>
    /\ UNCHANGED others_bmp

\* env_state.error = "", and the lock is released
BmpOkErr ==
    /\ bmp_pc = "ok_err"
    /\ env_state' = [env_state EXCEPT !.error = ""]
    /\ last_success' = [last_success EXCEPT
           !.env = Some([data |-> env_state.data, last_ok_ts |-> env_state.last_ok_ts])]
    /\ lock' = "free"
    /\ bmp_pc' = "sleep"
    /\ UNCHANGED <<i2c, bmp, addr_i, last_err, reading, bmp_e>>
    /\ UNCHANGED others_bmp

\* time.sleep(2) after a success
BmpSleep ==
    /\ bmp_pc = "sleep"
    /\ bmp_pc' = "try"
    /\ UNCHANGED <<lock, last_success, env_state, i2c, bmp, addr_i, last_err, reading, bmp_e>>
    /\ UNCHANGED others_bmp

\* except Exception as e: with lock:
BmpExcAcquire ==
    /\ bmp_pc = "except"
    /\ CanAcquire
    /\ lock' = "bmp"
    /\ bmp_pc' = "exc_status"
    /\ UNCHANGED <<last_success, env_state, i2c, bmp, addr_i, last_err, reading, bmp_e>>
    /\ UNCHANGED others_bmp

\* Mutant of BmpHandlerStatus: the handler also forgets the last success time.
BmpHandlerResetsOk(st) == [st EXCEPT !.status = FailStatus(st), !.last_ok_ts = None]

\* What the handler's first assignment makes of the record.
BmpHandlerStatus(st) == [st EXCEPT !.status = FailStatus(st)]

\* env_state.status = "ERR" if env_state.last_ok_ts is None else "WARN"
BmpExcStatus ==
    /\ bmp_pc = "exc_status"
    /\ env_state' = BmpHandlerStatus(env_state)
    /\ bmp_pc' = "exc_error"
    /\ UNCHANGED <<lock, last_success, i2c, bmp, addr_i, last_err, reading, bmp_e>>
    /\ UNCHANGED others_bmp

\* env_state.error = str(e), and the lock is released; e is unbound after the clause
BmpExcError ==
    /\ bmp_pc = "exc_error"
    /\ env_state' = [env_state EXCEPT !.error = bmp_e]
    /\ lock' = "free"
    /\ bmp_e' = ""
    /\ bmp_pc' = "backoff"
    /\ UNCHANGED <<last_success, i2c, bmp, addr_i, last_err, reading>>
    /\ UNCHANGED others_bmp

\* time.sleep(2) after a failure
BmpBackoff ==
    /\ bmp_pc = "backoff"
    /\ bmp_pc' = "try"
    /\ UNCHANGED <<lock, last_success, env_state, i2c, bmp, addr_i, last_err, reading, bmp_e>>
    /\ UNCHANGED others_bmp

\* ------------------------------------------------------------------ home()
others_home == <<clockVars, pmsVars, bmpVars, last_success>>

\* x.copy() if x else {}
CopyOrEmpty(d) == IF d # EmptyData THEN d ELSE EmptyData

\* with lock:
HomeAcquire ==
    /\ home_pc = "acq"
    /\ CanAcquire
    /\ lock' = "home"
    /\ home_pc' = "r_data"
    /\ UNCHANGED snap
    /\ UNCHANGED others_home

\* env = env_state.data.copy() ...; aq = aq_state.data.copy() ...
HomeReadData ==
    /\ home_pc = "r_data"
    /\ snap' = [snap EXCEPT !.env = CopyOrEmpty(env_state.data),
                            !.aq = CopyOrEmpty(aq_state.data)]
    /\ home_pc' = "r_status"
    /\ UNCHANGED lock
    /\ UNCHANGED others_home

\* env_status = env_state.status; aq_status = aq_state.status
HomeReadStatus ==
    /\ home_pc = "r_status"
    /\ snap' = [snap EXCEPT !.env_status = env_state.status,
                            !.aq_status = aq_state.status]
    /\ home_pc' = "r_age"
    /\ UNCHANGED lock
    /\ UNCHANGED others_home

\* env_age = age(env_state.last_ok_ts); aq_age = age(aq_state.last_ok_ts)
HomeReadAge ==
    /\ home_pc = "r_age"
    /\ snap' = [snap EXCEPT !.env_age = age(env_state.last_ok_ts),
                            !.aq_age = age(aq_state.last_ok_ts)]
    /\ home_pc' = "r_err"
    /\ UNCHANGED lock
    /\ UNCHANGED others_home

\* env_err = env_state.error; aq_err = aq_state.error, and the lock is released
HomeReadErr ==
    /\ home_pc = "r_err"
    /\ snap' = [snap EXCEPT !.env_err = env_state.error,
                            !.aq_err = aq_state.error]
    /\ lock' = "free"
    /\ home_pc' = "render"
    /\ UNCHANGED others_home

\* The page is rendered from the locals; the next request starts afresh.
HomeRender ==
    /\ home_pc = "render"
    /\ snap' = SnapInit
    /\ home_pc' = "acq"
    /\ UNCHANGED lock
    /\ UNCHANGED others_home

\* ----------------------------------------------------------- specification
\* pms_worker's steps around the read itself.
PmsCycle ==
    \/ PmsOpen \/ PmsTryAcquire \/ PmsTrySet \/ PmsScan
    \/ PmsOkAcquire \/ PmsOkData \/ PmsOkStatus \/ PmsOkTs \/ PmsOkErr \/ PmsSleep

\* pms_worker's failure path.
PmsFailure ==
    \/ PmsOpenFail \/ PmsReadFail
    \/ PmsExcAcquire \/ PmsExcStatus \/ PmsExcError \/ PmsBackoff

PmsStep == PmsCycle \/ PmsRead \/ PmsFailure

BmpStep ==
    \/ BmpTryAcquire \/ BmpTrySet \/ BmpBus \/ BmpProbe \/ BmpRead
    \/ BmpOkAcquire \/ BmpOkData \/ BmpOkStatus \/ BmpOkTs \/ BmpOkErr \/ BmpSleep
    \/ BmpExcAcquire \/ BmpExcStatus \/ BmpExcError \/ BmpBackoff

HomeStep ==
    \/ HomeAcquire \/ HomeReadData \/ HomeReadStatus \/ HomeReadAge
    \/ HomeReadErr \/ HomeRender

\* The whole program at one instant of the clock.
Next == SensorSend \/ PmsStep \/ BmpStep \/ HomeStep

Spec == Init /\ [][Next]_vars

\* The serial worker alone on a backlog longer than one read can take: two
\* bytes of noise and five frames waiting in the port's input queue.
Backlog == <<0, 0>> \o FrameA \o FrameB \o FrameA \o FrameB \o FrameA

InitBurst ==
    /\ BootState
    /\ wire = Backlog
    /\ line = <<>>
    /\ pms_pc = "open"
    /\ bmp_pc = "off"

NextBurst == PmsCycle \/ PmsReadEdge \/ PmsFailure

SpecBurst == InitBurst /\ [][NextBurst]_vars

\* The steps each thread takes inside a "with lock:" block. They make no
\* blocking call, so a thread that is inside such a block runs on.
PmsLocked ==
    \/ PmsTrySet \/ PmsOkData \/ PmsOkStatus \/ PmsOkTs \/ PmsOkErr
    \/ PmsExcStatus \/ PmsExcError
BmpLocked ==
    \/ BmpTrySet \/ BmpOkData \/ BmpOkStatus \/ BmpOkTs \/ BmpOkErr
    \/ BmpExcStatus \/ BmpExcError
HomeLocked == HomeReadData \/ HomeReadStatus \/ HomeReadAge \/ HomeReadErr

\* The program under a fair scheduler and a fair lock: a thread inside a
\* lock block keeps running, and a request waiting for a lock that is free
\* again and again gets it. Nothing is promised of the workers outside their
\* lock blocks: opening a port, reading and sleeping may take for ever.
\* Either both workers run against a particle sensor that stays silent, or
\* the serial worker has a frame waiting and the I2C thread has not been
\* scheduled yet.
InitFair ==
    /\ BootState
    /\ line = <<>>
    /\ \/ wire = <<>> /\ pms_pc = "open" /\ bmp_pc = "try"
       \/ wire = FrameA /\ pms_pc = "open" /\ bmp_pc = "off"

NextFair == PmsCycle \/ PmsReadWhole \/ PmsFailure \/ BmpStep \/ HomeStep

SpecFair ==
    /\ InitFair /\ [][NextFair]_vars
    /\ WF_vars(PmsLocked) /\ WF_vars(BmpLocked)
    /\ WF_vars(HomeLocked) /\ SF_vars(HomeAcquire)

\* One worker at a time against the clock and home(): the other thread has
\* not been scheduled yet ("off"); home() supplies the contention for the lock.
InitRec ==
    /\ BootState
    /\ wire = <<>>
    /\ \/ pms_pc = "open" /\ bmp_pc = "off" /\ line \in SeqsUpTo(ValidFrames, MaxSent)
       \/ pms_pc = "off" /\ bmp_pc = "try" /\ line = <<>>

NextRec == Tick \/ SensorSend \/ PmsStep \/ BmpStep \/ HomeStep

SpecRec == InitRec /\ [][NextRec]_vars

\* The serial worker alone on a given byte stream, cut into chunks in every
\* possible way, with the port failing and reopening at any point.
NoiseBytes == {0, MARK_HI, MARK_LO}
Streams ==
    {n \o FrameA : n \in SeqsUpTo(NoiseBytes, MaxNoise)}
    \cup {FrameA \o FrameB, FrameHot \o FrameA, SubSeq(FrameA, 1, 10) \o FrameB,
          Corrupt(FrameA, 11, 7) \o FrameB, FrameCf1Hot}

InitStream ==
    /\ BootState
    /\ wire \in Streams
    /\ line = <<>>
    /\ pms_pc = "open"
    /\ bmp_pc = "off"

NextStream == PmsCycle \/ PmsReadAny \/ PmsFailure

SpecStream == InitStream /\ [][NextStream]_vars

\* The serial worker on one 32-byte window that arrives whole: every valid
\* frame, and every valid frame with one byte of 0..29 changed.
CorruptedFrames ==
    {Corrupt(f, k, v) : f \in ValidFrames, k \in 0..(BODY_LEN - 1), v \in 0..255}
    \ ValidFrames

InitDecode ==
    /\ BootState
    /\ wire \in ValidFrames \cup CorruptedFrames
    /\ line = <<>>
    /\ pms_pc = "open"
    /\ bmp_pc = "off"

NextDecode == PmsCycle \/ PmsReadWhole

SpecDecode == InitDecode /\ [][NextDecode]_vars

\* ------------------------------------------------------------------ claims
\* Positions at which a worker is inside one of its locked blocks.
PmsInUpdate ==
    pms_pc \in {"try_set", "ok_data", "ok_status", "ok_ts", "ok_err", "exc_status", "exc_error"}
BmpInUpdate ==
    bmp_pc \in {"try_set", "ok_data", "ok_status", "ok_ts", "ok_err", "exc_status", "exc_error"}

\* Positions inside the except-handlers' locked blocks.
PmsInHandler == pms_pc \in {"exc_status", "exc_error"}
BmpInHandler == bmp_pc \in {"exc_status", "exc_error"}

\* A step leaves everything of a record but status and error as it was.
OnlyStatusAndError(st, st2) ==
    /\ st2.data = st.data
    /\ st2.last_ok_ts = st.last_ok_ts
    /\ st2.last_try_ts = st.last_try_ts

\* The record right after a failed attempt that follows a success.
WarnWithStaleData(st, ok) ==
    /\ st.status = "WARN"
    /\ st.data = ok[1].data
    /\ st.last_ok_ts = ok[1].last_ok_ts

C1_AfterFailure ==
    /\ (pms_pc = "backoff" /\ last_success.aq # None)
          => WarnWithStaleData(aq_state, last_success.aq)
    /\ (bmp_pc = "backoff" /\ last_success.env # None)
          => WarnWithStaleData(env_state, last_success.env)

C1_HandlerFrame ==
    /\ PmsInHandler => OnlyStatusAndError(aq_state, aq_state')
    /\ BmpInHandler => OnlyStatusAndError(env_state, env_state')

\* C1: every failed attempt that follows a success (the first, and each of
\* the N consecutive ones after it) leaves the record with status WARN, and
\* with data and last_ok_ts exactly as the most recent success wrote them;
\* the steps of the failure handler change nothing but status and error.
C1_WarnKeepsLastSuccess == [](C1_AfterFailure) /\ [][C1_HandlerFrame]_vars

\* C1 witness: the serial worker has just handled a failure after a success.
C1_Witness ==
    /\ pms_pc = "backoff"
    /\ last_success.aq # None
    /\ aq_state.status = "WARN"
    /\ aq_state.error = ErrRead

\* The record right after a failed attempt when no success has happened.
ErrWithNoData(st) ==
    /\ st.status = "ERR"
    /\ st.last_ok_ts = None
    /\ st.data = EmptyData

\* C2: every failed attempt made while no success has happened since the
\* start leaves the record with status ERR, no last_ok_ts and the empty payload.
C2_ErrBeforeAnySuccess ==
    /\ (pms_pc = "backoff" /\ last_success.aq = None) => ErrWithNoData(aq_state)
    /\ (bmp_pc = "backoff" /\ last_success.env = None) => ErrWithNoData(env_state)

\* C2 witness: the bus worker has failed a second time in a row (the bus
\* opened, no address answered) and it has never succeeded.
C2_Witness ==
    /\ bmp_pc = "backoff"
    /\ last_success.env = None
    /\ i2c # None
    /\ env_state.status = "ERR"
    /\ env_state.error = ErrAddr(ADDR_B)

\* The two shapes a record has between updates.
RecordShape(st) ==
    /\ st.status \in {"INIT", "ERR"} <=> (st.last_ok_ts = None /\ st.data = EmptyData)
    /\ st.status \in {"OK", "WARN"} <=> (st.last_ok_ts # None /\ st.data # EmptyData)
    /\ st.status \in {"INIT", "ERR", "OK", "WARN"}

C3_Shape ==
    /\ ~PmsInUpdate => RecordShape(aq_state)
    /\ ~BmpInUpdate => RecordShape(env_state)

C3_NoWayBack ==
    /\ aq_state.status \in {"OK", "WARN"} => aq_state'.status \in {"OK", "WARN"}
    /\ env_state.status \in {"OK", "WARN"} => env_state'.status \in {"OK", "WARN"}

\* C3: in every state in which the record's worker is not inside one of its
\* locked blocks (the states a reader holding the lock can see), status is
\* INIT or ERR exactly when last_ok_ts is absent and data is empty, and OK or
\* WARN exactly when last_ok_ts is present and data is non-empty; and no step
\* takes a record from OK or WARN to ERR or INIT.
C3_StatusMatchesHistory == [](C3_Shape) /\ [][C3_NoWayBack]_vars

\* C3 witness: a record that has been OK, went to WARN, and whose worker is
\* reading again on a reopened port.
C3_Witness ==
    /\ aq_state.status = "WARN"
    /\ pms_pc = "sleep"
    /\ ser = "open"

\* C4: a read cycle of the serial worker whose read returned no bytes ends
\* with status WARN or ERR.
C4_SilentReadIsFailure ==
    (pms_pc = "sleep" /\ chunk = <<>>) => aq_state.status \in {"WARN", "ERR"}

\* home() is inside its locked block.
HomeReading == home_pc \in {"r_data", "r_status", "r_age", "r_err"}

\* An age home() computed from ts at some earlier instant of its block.
AgeOf(a, ts) ==
    IF ts = None THEN a = None
    ELSE a # None /\ a[1] >= 0 /\ a[1] <= now - ts[1]

\* What home() has copied so far is what the two records hold now.
SnapMatchesRecords ==
    /\ home_pc \in {"r_status", "r_age", "r_err"} =>
          /\ snap.env = env_state.data
          /\ snap.aq = aq_state.data
    /\ home_pc \in {"r_age", "r_err"} =>
          /\ snap.env_status = env_state.status
          /\ snap.aq_status = aq_state.status
    /\ home_pc = "r_err" =>
          /\ AgeOf(snap.env_age, env_state.last_ok_ts)
          /\ AgeOf(snap.aq_age, aq_state.last_ok_ts)

\* One sensor's part of a finished snapshot is a record as an update left it.
SnapWhole(data, status, a, err) ==
    /\ status = "OK" => err = ""
    /\ data # EmptyData <=> a # None
    /\ status \in {"OK", "WARN"} <=> data # EmptyData

\* C5: while home() copies the two records no worker is inside an update and
\* every field copied so far equals the record's field, so the copies are
\* those of one state between complete updates; the finished snapshot never
\* pairs status OK with an error text, or a payload with an absent last_ok_ts.
C5_SnapshotNotTorn ==
    /\ HomeReading => (~PmsInUpdate /\ ~BmpInUpdate /\ SnapMatchesRecords)
    /\ home_pc = "render" =>
          /\ SnapWhole(snap.env, snap.env_status, snap.env_age, snap.env_err)
          /\ SnapWhole(snap.aq, snap.aq_status, snap.aq_age, snap.aq_err)

\* C5 witness: a finished snapshot taken while both workers were running,
\* one record fresh and the other failed, with a worker waiting for the lock
\* home() has just released.
C5_Witness ==
    /\ home_pc = "render"
    /\ snap.aq_status = "OK"
    /\ snap.env_status = "WARN"
    /\ bmp_pc \in {"try", "ok", "except"}
    /\ pms_pc \in {"try", "ok", "except"}

\* last_ok_ts does not go from a to an earlier or absent b.
NotBackward(a, b) == a = None \/ (b # None /\ b[1] >= a[1])

C6_Step ==
    /\ NotBackward(aq_state.last_ok_ts, aq_state'.last_ok_ts)
    /\ NotBackward(env_state.last_ok_ts, env_state'.last_ok_ts)

\* C6: no step of a worker, of home() or of the clock makes a record's
\* last_ok_ts smaller or absent again, and last_ok_ts is never ahead of the clock.
C6_LastOkMonotonic ==
    /\ [][C6_Step]_vars
    /\ [](aq_state.last_ok_ts # None => aq_state.last_ok_ts[1] <= now)
    /\ [](env_state.last_ok_ts # None => env_state.last_ok_ts[1] <= now)

\* C6 witness: a second success has moved last_ok_ts forward.
C6_Witness ==
    /\ Len(okLog) = 2
    /\ pms_pc = "scan"
    /\ last_success.aq # None
    /\ last_success.aq[1].last_ok_ts[1] > 1
    /\ aq_state.last_ok_ts = last_success.aq[1].last_ok_ts

\* C7: whenever a record's status is not INIT (and its worker is not inside
\* the update that is setting it), an attempt has stamped last_try_ts.
C7_TryStampedBeforeStatus ==
    /\ (~PmsInUpdate /\ aq_state.status # "INIT") => aq_state.last_try_ts # None
    /\ (~BmpInUpdate /\ env_state.status # "INIT") => env_state.last_try_ts # None

\* The payload the success update stores for a valid frame.
PayloadOf(frame) == Accept(frame)[1]

\* A stream that is one valid frame behind noise that holds no marker.
OneFrameStream(b) ==
    /\ Len(b) >= FRAME_LEN
    /\ SubSeq(b, Len(b) - FRAME_LEN + 1, Len(b)) = FrameA
    /\ Find(SubSeq(b, 1, Len(b) - FRAME_LEN)) < 0

\* C8: at the end of every read cycle, whatever the chunks were (empty ones,
\* single bytes, reads cut short by a failing port), the payloads accepted so
\* far and the buffer kept are those of one run of the frame search over all
\* the bytes received so far as a single chunk; and once a stream that is one
\* valid frame (behind marker-free noise) has arrived, exactly one success
\* update has been made, with that frame's payload.
C8_ChunkingIsInvisible ==
    pms_pc = "sleep" =>
        /\ okLog = ScanAll(fed).log
        /\ buf = ScanAll(fed).buf
        /\ (wire = <<>> /\ OneFrameStream(fed)) => okLog = <<PayloadOf(FrameA)>>

\* C8 witness: a frame behind a noise byte that looks like the start of a
\* marker has been accepted once, its last byte having arrived on its own.
C8_Witness ==
    /\ pms_pc = "sleep"
    /\ wire = <<>>
    /\ fed = <<MARK_HI>> \o FrameA
    /\ Len(chunk) = 1
    /\ okLog = <<PayloadOf(FrameA)>>

\* The buffer holds a marker, the first one at 0-based i, and fewer than 30
\* bytes after it.
MarkerShort(b) == Find(b) >= 0 /\ Len(b) < Find(b) + FRAME_LEN

C9_ScanOfShort ==
    (pms_pc = "scan" /\ MarkerShort(buf)) =>
        /\ pms_pc' = "sleep"
        /\ buf' = SliceFrom(buf, Find(buf))
        /\ aq_state' = aq_state
        /\ okLog' = okLog
        /\ pm' = pm

C9_ScanOfCompleted ==
    (pms_pc = "scan" /\ Len(chunk) < BODY_LEN /\ buf \in ValidFrames) =>
        /\ pms_pc' = "ok"
        /\ pm' = Some(PayloadOf(buf))
        /\ buf' = <<>>

\* C9: a pass of the frame search over a buffer whose first marker has fewer
\* than 30 bytes behind it finds no frame, touches no field of the record and
\* keeps the buffer from the marker on; and when the buffer kept that way has
\* been completed to a valid frame by a later chunk, the next pass decodes it.
C9_ShortFrameIsKept == [][C9_ScanOfShort /\ C9_ScanOfCompleted]_vars

\* C9 witness: a frame whose marker had arrived with fewer than 30 further
\* bytes has been decoded after the rest came in.
C9_Witness ==
    /\ pms_pc = "ok"
    /\ fed = <<0>> \o FrameA
    /\ Len(chunk) < BODY_LEN
    /\ Len(chunk) > 2
    /\ pm = Some(PayloadOf(FrameA))

\* w is a valid frame with exactly one byte among bytes 0..29 changed.
IsCorrupted(w) ==
    /\ Len(w) = FRAME_LEN
    /\ \E f \in ValidFrames :
          LET diff == {k \in 0..(FRAME_LEN - 1) : At(w, k) # At(f, k)}
          IN Cardinality(diff) = 1 /\ \A k \in diff : k < BODY_LEN

\* The window under test: on the line, or already read.
Window == IF fed = <<>> THEN wire ELSE fed

\* C10: a valid frame with one byte of 0..29 changed and the checksum bytes
\* left alone does not parse, and the worker that receives it goes on
\* scanning and reading without an exception and without a success update.
C10_CorruptedFrameRejected ==
    IsCorrupted(Window) =>
        /\ parse_plantower_frame(Window) = None
        /\ Accept(Window) = None
        /\ okLog = <<>>
        /\ aq_state.status = "INIT"
        /\ pms_pc \in {"open", "try", "try_set", "read", "scan", "sleep"}

\* C10 witness: a frame whose header is intact and whose payload byte was
\* changed has been cut out as a window and dropped.
C10_Witness ==
    /\ IsCorrupted(fed)
    /\ At(fed, 0) = MARK_HI
    /\ At(fed, 1) = MARK_LO
    /\ At(fed, 13) # At(FrameA, 13)
    /\ pms_pc = "sleep"
    /\ buf = <<>>

\* The 32 bytes the frame search cut out last: buf is always the tail of the
\* bytes received, and the window is what lay in front of it.
LastWindow ==
    SubSeq(fed, Len(fed) - Len(buf) - FRAME_LEN + 1, Len(fed) - Len(buf))

\* One of the six concentrations a parsed frame carries is over the ceiling.
AnyFieldOver(parsed) ==
    \/ Implausible(parsed.cf1)
    \/ Implausible(parsed.atm)

\* C11: a frame handed to the success update has none of its six
\* concentrations (CF1 and ATM) over 5000; any other checksum-valid frame
\* is dropped without an update.
C11_NoFieldOverCeilingAccepted ==
    pms_pc \in {"ok", "ok_data", "ok_status", "ok_ts", "ok_err"} =>
        ~AnyFieldOver(parse_plantower_frame(LastWindow)[1])

\* The four fields of a record that only a success update or a handled
\* failure may write.
SameOutcome(a, b) ==
    /\ a.status = b.status
    /\ a.data = b.data
    /\ a.last_ok_ts = b.last_ok_ts
    /\ a.error = b.error

\* Where pms_worker is while a cycle runs that has accepted no frame and
\* handled no exception.
PmsQuiet == pms_pc \in {"try", "try_set", "read", "scan", "sleep"}

C12_Step == PmsQuiet => SameOutcome(aq_state, aq_state')

\* C12: a read cycle of pms_worker that accepts no frame and raises no
\* error (silence, noise, a frame still incomplete, a window that fails the
\* checksum or the sanity check) leaves status, data, last_ok_ts and error
\* as they were; only last_try_ts may change.
C12_QuietCycleKeepsRecord == [][C12_Step]_vars

\* A frame was accepted, and a later cycle that received only the first
\* part of the next frame has finished with the record still OK.
C12_Witness ==
    /\ pms_pc = "sleep"
    /\ okLog = <<PayloadOf(FrameA)>>
    /\ aq_state.status = "OK"
    /\ chunk # <<>>
    /\ Len(fed) - Len(chunk) >= FRAME_LEN
    /\ Len(buf) \in 2 .. (FRAME_LEN - 1)

\* C13: in each worker a read error is recorded as a failed attempt and
\* closes the transport, and no read is issued until the transport has
\* been acquired again: the serial port is closed from the exception to the
\* end of the backoff and open at every read, and the I2C bus and the
\* sensor object are gone when the backoff after a failed sensor read
\* begins.
C13_ReadErrorTearsDownTransport ==
    /\ PmsInHandler \/ pms_pc = "backoff" => ser = "closed"
    /\ pms_pc = "read" => ser = "open"
    /\ bmp_pc = "backoff" /\ env_state.error = ErrIO => i2c = None /\ bmp = None

\* The candidate address discovery tries last.
LastAddr == BMP_ADDRS[Len(BMP_ADDRS)]

\* During discovery nothing is bound yet, the candidates before the current
\* one have failed in list order, and last_err is the fault of the one just
\* before; a discovery that failed has recorded the last candidate's fault.
C14_Inv ==
    /\ bmp_pc = "probe" =>
          /\ bmp = None
          /\ addr_i \in 1 .. Len(BMP_ADDRS) + 1
          /\ last_err = IF addr_i = 1 THEN None
                        ELSE Some(ErrAddr(BMP_ADDRS[addr_i - 1]))
    /\ bmp_pc = "backoff" /\ i2c # None /\ bmp = None =>
          env_state.error = ErrAddr(LastAddr)

\* Binding takes the current candidate and ends discovery; a bound sensor
\* stays bound and is not discovered again; discovery raises only behind
\* the last candidate, and raises that candidate's fault.
C14_Step ==
    /\ bmp = None /\ bmp' # None =>
          /\ bmp_pc = "probe" /\ addr_i <= Len(BMP_ADDRS)
          /\ bmp' = Some(BMP_ADDRS[addr_i])
          /\ bmp_pc' = "read"
    /\ bmp_pc = "probe" /\ bmp_pc' = "probe" => addr_i' \in {addr_i, addr_i + 1}
    /\ bmp # None => bmp' = bmp /\ bmp_pc' # "probe"
    /\ bmp_pc = "probe" /\ bmp_pc' = "except" =>
          /\ addr_i = Len(BMP_ADDRS) + 1
          /\ bmp_e' = ErrAddr(LastAddr)

\* C14: BMP280 discovery tries the candidate addresses in list order and
\* binds to the first that answers without trying a later one; once bound
\* it is not repeated; it fails only when every candidate has failed, and
\* the error recorded is the last candidate's.
C14_DiscoveryOrder == [](C14_Inv) /\ [][C14_Step]_vars

\* A discovery in which both addresses failed was recorded with the second
\* address's fault, and a later discovery bound to the second address after
\* the first had failed again.
C14_Witness ==
    /\ bmp_pc = "read"
    /\ bmp = Some(ADDR_B)
    /\ env_state.status = "ERR"
    /\ env_state.error = ErrAddr(ADDR_B)

\* A worker stands at a "with lock:" it has not entered yet.
PmsAtLock == pms_pc \in {"try", "ok", "except"}
BmpAtLock == bmp_pc \in {"try", "ok", "except"}

\* C15: mutual exclusion is per record: no worker stands at a lock that is
\* held on behalf of the other sensor's record.
C15_NoWaitOnOtherRecord ==
    /\ ~(PmsAtLock /\ lock = "bmp")
    /\ ~(BmpAtLock /\ lock = "pms")

\* A worker holds the lock only inside one of its assignment blocks: never
\* while it opens a transport, reads, sleeps or backs off.
C16_NoBlockingUnderLock ==
    /\ lock = "pms" => PmsInUpdate
    /\ lock = "bmp" => BmpInUpdate

\* C16: home()'s snapshot never waits on a worker's progress: no worker
\* holds the lock while it opens a transport, is blocked in a read or
\* sleeps, so under fair scheduling every request gets the lock and
\* completes its snapshot, whatever the transports do.
C16_SnapshotCompletes ==
    /\ [](C16_NoBlockingUnderLock)
    /\ (home_pc = "acq" ~> home_pc = "render")

\* A snapshot is complete while the serial worker is inside a read that has
\* yet to return and the I2C worker is in its backoff after a failure.
C16_Witness ==
    /\ home_pc = "render"
    /\ pms_pc = "read"
    /\ bmp_pc = "backoff"
    /\ snap.env_status = "ERR"

\* The positions inside the two "while True" loops, and "off" for a thread
\* that has not run yet.
PmsLoop ==
    {"off", "open", "try", "try_set", "read", "scan", "ok", "ok_data",
     "ok_status", "ok_ts", "ok_err", "sleep", "except", "exc_status",
     "exc_error", "backoff"}
BmpLoop ==
    {"off", "try", "try_set", "i2c", "probe", "read", "ok", "ok_data",
     "ok_status", "ok_ts", "ok_err", "sleep", "except", "exc_status",
     "exc_error", "backoff"}

\* A worker is always somewhere inside its loop, and a worker in its
\* backoff can always leave it.
C17_NeverStuck ==
    /\ pms_pc \in PmsLoop
    /\ bmp_pc \in BmpLoop
    /\ pms_pc = "backoff" => ENABLED PmsBackoff
    /\ bmp_pc = "backoff" => ENABLED BmpBackoff

\* What follows a backoff is the start of another attempt, and a success
\* update leaves status OK with the error cleared.
C17_Step ==
    /\ pms_pc = "backoff" => pms_pc' \in {"backoff", "open"}
    /\ bmp_pc = "backoff" => bmp_pc' \in {"backoff", "try"}
    /\ pms_pc = "ok_err" /\ pms_pc' # "ok_err" =>
          aq_state'.status = "OK" /\ aq_state'.error = ""
    /\ bmp_pc = "ok_err" /\ bmp_pc' # "ok_err" =>
          env_state'.status = "OK" /\ env_state'.error = ""

\* C17: no run of transport failures stops a worker or leaves it in a final
\* state: after each handled failure and its backoff the worker starts
\* another attempt, and an attempt that succeeds sets status to OK.
C17_WorkerNeverGivesUp == [](C17_NeverStuck) /\ [][C17_Step]_vars

\* The I2C worker has failed before any success, failed again at a sensor
\* read, and is now completing a success update: status is OK already and
\* the text of the last failure is about to be cleared.
C17_Witness ==
    /\ bmp_pc = "ok_err"
    /\ env_state.status = "OK"
    /\ env_state.error = ErrIO
    /\ last_success.env # None

\* A pass of the frame search that does not leave the loop makes the buffer
\* shorter.
C18_Measure ==
    pms_pc = "scan" =>
        \/ ScanStep(buf).brk
        \/ Len(ScanStep(buf).buf) < Len(buf)

\* A pass either leaves the loop, or has found a marker with a whole window
\* behind it and removes everything up to the end of that window, whether
\* the window then decodes or not.
C18_Step ==
    pms_pc = "scan" =>
        \/ pms_pc' = "sleep"
        \/ /\ pms_pc' \in {"scan", "ok"}
           /\ Find(buf) >= 0
           /\ Len(buf) >= Find(buf) + FRAME_LEN
           /\ buf' = SliceFrom(buf, Find(buf) + FRAME_LEN)

\* C18: the frame-search loop terminates on every buffer: each pass either
\* leaves the loop or removes the marker it found together with its whole
\* 32-byte window, also when the window fails the checksum, so no marker is
\* scanned twice.
C18_ScanTerminates == [](C18_Measure) /\ [][C18_Step]_vars

\* A frame with a bad checksum and a good frame arrived in one read; the
\* first pass has removed the bad window whole and left the good frame.
C18_Witness ==
    /\ pms_pc = "scan"
    /\ fed = Corrupt(FrameA, 11, 7) \o FrameB
    /\ chunk = fed
    /\ buf = FrameB
    /\ okLog = <<>>

\* The stream has been received to its last byte and searched, and its last
\* 32 bytes are a frame the worker accepts.
StreamDone ==
    /\ pms_pc = "sleep"
    /\ wire = <<>>
    /\ Len(fed) >= FRAME_LEN
    /\ Accept(SubSeq(fed, Len(fed) - FRAME_LEN + 1, Len(fed))) # None

\* The bytes in front of the closing frame, and the closing frame.
Before == SubSeq(fed, 1, Len(fed) - FRAME_LEN)
Closing == SubSeq(fed, Len(fed) - FRAME_LEN + 1, Len(fed))

\* The closing frame was the last one handed to a success update.
ClosingDecoded ==
    /\ okLog # <<>>
    /\ okLog[Len(okLog)] = PayloadOf(Closing)

\* C19 as stated: whatever bytes come first, markers among them or not, a
\* complete valid frame behind them is decoded and gives a success update.
C19_FrameBehindAnyBytesDecoded == StreamDone => ClosingDecoded

\* C19 amended: a complete valid frame is decoded and gives a success
\* update when the search of the bytes in front of it leaves no marker
\* pending, that is when no window opened at a 0x42 0x4D among those bytes
\* reaches into the frame.
C19_FrameBehindSettledBytesDecoded ==
    StreamDone /\ Find(ScanAll(Before).buf) < 0 => ClosingDecoded

\* A frame with a bad checksum, marker and all, was followed by a good
\* frame, and the good frame was decoded.
C19_Witness ==
    /\ StreamDone
    /\ Before = Corrupt(FrameA, 11, 7)
    /\ Find(Before) >= 0
    /\ okLog = <<PayloadOf(FrameB)>>

\* pms_worker is not inside the frame search of a cycle: the last cycle has
\* ended, by its sleep or by an exception, and the next has yet to read.
PmsBetweenSearches ==
    pms_pc \notin {"scan", "ok", "ok_data", "ok_status", "ok_ts", "ok_err"}

\* C20: the accumulation buffer is bounded: when a read cycle ends it holds
\* at most 31 bytes, and at most 1 byte when it holds no marker, so it
\* never holds more than 31 + 128 bytes, over any number of cycles and
\* reconnects.
C20_BufferBounded ==
    /\ Len(buf) <= FRAME_LEN - 1 + READ_MAX
    /\ PmsBetweenSearches =>
          /\ Len(buf) <= FRAME_LEN - 1
          /\ Find(buf) < 0 => Len(buf) <= 1

\* A cycle ended on a frame one byte short, and the next read returned all
\* of its 128 bytes: the buffer is at its bound.
C20_Witness ==
    /\ pms_pc = "scan"
    /\ Len(chunk) = READ_MAX
    /\ Len(buf) = FRAME_LEN - 1 + READ_MAX
====
